---- MODULE Spec2Model ----
(***************************************************************************)
(* Model of the vertex_rag_pipeline utilities:                             *)
(*   - add_documents_to_vector_store / query_vector_store                  *)
(*     (app/utils/vector_store_interface.py)                               *)
(*   - split_documents (app/utils/text_processing.py), including the       *)
(*     RecursiveCharacterTextSplitter it configures and calls              *)
(*   - load_documents (app/utils/data_loader.py), including the            *)
(*     DirectoryLoader it configures and calls                             *)
(*   - get_vertex_embeddings_client / get_vertex_vector_search_client /    *)
(*     reset_clients (app/utils/gcp_clients.py)                            *)
(* Texts are sequences of one-character strings.                           *)
(***************************************************************************)
EXTENDS Integers, Sequences, FiniteSets, TLC

\* ---------------------------------------------------------------- bounds
MaxChunks == 7
MaxBatch == 3
MaxK == 2
MaxTextLen == 5
MaxChunkSize == 4
MaxSplitDocs == 2
MaxFiles == 2
PdfPages == 2
MaxCalls == 4

\* ------------------------------------------------------------- variables
VARIABLES
    \* add_documents_to_vector_store
    documents,      \* the chunk list passed in
    batch_size,     \* the batch_size argument
    i,              \* loop variable of range(0, total_docs, batch_size)
    added_count,    \* added_count local
    upserts,        \* batches handed to vector_store.add_documents, in call order
    ingPc,          \* "start" | "loop" | "returned" | "raised"
    ingRaised,      \* exception leaving the function ("none" if none)
    ingCause,       \* __cause__ of that exception ("none" if none)
    ingLogged,      \* count written to the log by the final/handler message, -1 if none
    portError,      \* what vector_store.add_documents raised ("none" if nothing)
    \* query_vector_store
    deployed_index_id,  \* config.VECTOR_SEARCH_DEPLOYED_INDEX_ID
    query,          \* the query argument
    k,              \* the k argument
    qPc,            \* "start" | "returned" | "raised"
    qRaised,        \* exception leaving the function ("none" if none)
    results,        \* the results local, returned at the end
    qPortCalls,     \* number of similarity_search_with_score calls made
    qPortReply,     \* what the Index Port did: "none" | "ok" | an error class
    qPortResults,   \* what the Index Port returned (<<>> if it raised)
    qErrorLogged,   \* an except clause of the query logged/printed an error
    \* split_documents
    CHUNK_SIZE,     \* config.CHUNK_SIZE
    CHUNK_OVERLAP,  \* config.CHUNK_OVERLAP
    split_input,    \* the documents argument: records [text, copyable]
    spPc,           \* "start" | "splitting" | "returned" | "raised"
    spIdx,          \* index of the next document TextSplitter.create_documents handles
    spAcc,          \* the chunk list create_documents has built so far
    chunks,         \* the chunks local: what the caller receives
    spRaised,       \* exception leaving the function ("none" if none)
    spCause,        \* __cause__ of that exception ("none" if none)
    \* load_documents
    source_is_dir,  \* Path(source_dir).is_dir()
    files,          \* the files under source_dir: records [suffix, loc, parse]
    allowed_suffixes,   \* the allowed_suffixes argument
    recursive,      \* the recursive argument
    ldPc,           \* "start" | "loop" | "returned" | "raised"
    ldIdx,          \* position of the for loop in allowed_suffixes
    loaded_docs,    \* loaded_docs local: what the caller receives
    loaders_used,   \* loaders_used local
    files_failed,   \* files_failed local
    ldRaised,       \* exception leaving the function ("none" if none)
    ldHandled,      \* suffixes whose load ended in an except clause, with the origin
    ldWarned,       \* the "No documents were successfully loaded" warning was logged
    \* gcp_clients
    GCP_PROJECT_ID,                     \* config.GCP_PROJECT_ID
    VECTOR_SEARCH_INDEX_ID,             \* config.VECTOR_SEARCH_INDEX_ID
    VECTOR_SEARCH_INDEX_ENDPOINT_ID,    \* config.VECTOR_SEARCH_INDEX_ENDPOINT_ID
    GCS_STAGING_BUCKET_NAME,            \* config.GCS_STAGING_BUCKET_NAME
    vertex_embeddings_client,       \* _vertex_embeddings_client: a handle, or None
    vertex_vector_search_client,    \* _vertex_vector_search_client: a handle, or None
    heap,           \* the client objects built so far: records [id, kind, ...]
    cliCalls,       \* number of calls made so far
    cliCall,        \* the last call: "none" | "get_embeddings" | "get_vector_search" | "reset"
    cliReturned,    \* handle the last call returned (None if it raised or was a reset)
    cliRaised,      \* exception leaving the last call ("none" if none)
    cliCause,       \* __cause__ of that exception ("none" if none)
    cliBuilt,       \* handles built since the last reset_clients
    cliHanded,      \* handles returned to callers since the last reset_clients
    cliRetired      \* handles built before the last reset_clients

ingVars == <<documents, batch_size, i, added_count, upserts, ingPc, ingRaised,
             ingCause, ingLogged, portError>>

queryVars == <<deployed_index_id, query, k, qPc, qRaised, results, qPortCalls, qPortReply,
               qPortResults, qErrorLogged>>

splitVars == <<CHUNK_SIZE, CHUNK_OVERLAP, split_input, spPc, spIdx, spAcc, chunks,
               spRaised, spCause>>

loadVars == <<source_is_dir, files, allowed_suffixes, recursive, ldPc, ldIdx,
              loaded_docs, loaders_used, files_failed, ldRaised, ldHandled, ldWarned>>

configVars == <<GCP_PROJECT_ID, VECTOR_SEARCH_INDEX_ID, VECTOR_SEARCH_INDEX_ENDPOINT_ID,
                GCS_STAGING_BUCKET_NAME>>

clientVars == <<configVars, vertex_embeddings_client, vertex_vector_search_client, heap,
                cliCalls, cliCall, cliReturned, cliRaised, cliCause, cliBuilt, cliHanded,
                cliRetired>>

vars == <<ingVars, queryVars, splitVars, loadVars, clientVars>>

\* what each function leaves alone
notIngVars == <<queryVars, splitVars, loadVars, clientVars>>
notQueryVars == <<ingVars, splitVars, loadVars, clientVars>>
notSplitVars == <<ingVars, queryVars, loadVars, clientVars>>
notLoadVars == <<ingVars, queryVars, splitVars, clientVars>>
notClientVars == <<ingVars, queryVars, splitVars, loadVars>>

\* ------------------------------------------------------------- helpers
Min(a, b) == IF a < b THEN a ELSE b

Max(a, b) == IF a > b THEN a ELSE b

\* e, with v evaluated first: a loop written as a recursion hands each iteration
\* the finished state of the previous one (TLC would otherwise defer it)
Strict(v, e) == IF v = v THEN e ELSE e

RECURSIVE Flatten(_)
Flatten(ss) == IF ss = <<>> THEN <<>> ELSE Head(ss) \o Flatten(Tail(ss))

RECURSIVE SumLen(_)
SumLen(ss) == IF ss = <<>> THEN 0 ELSE Len(Head(ss)) + SumLen(Tail(ss))

CeilDiv(n, b) == (n + b - 1) \div b

\* ------------------------------------------- Index Port error classes
\* google.api_core.exceptions: FailedPrecondition and ServiceUnavailable are
\* subclasses of GoogleAPIError; ConnectionError is a plain Exception.
PortErrors == {"FailedPrecondition", "ServiceUnavailable", "GoogleAPIError",
               "ConnectionError"}

IsFailedPrecondition(e) == e = "FailedPrecondition"

IsGoogleAPIError(e) ==
    e \in {"FailedPrecondition", "ServiceUnavailable", "GoogleAPIError"}

\* =====================================================================
\* add_documents_to_vector_store
\* =====================================================================
total_docs == Len(documents)

\* documents[i : i + batch_size]
BatchMutShort(docs, lo, size) == SubSeq(docs, lo + 1, Min(lo + size, Len(docs)) - 1)
Batch(docs, lo, size) == SubSeq(docs, lo + 1, Min(lo + size, Len(docs)))

\* the except clauses: what leaves the function, its cause, and the count logged
HandlerMutSwallow(e, count) ==
    IF IsFailedPrecondition(e)
    THEN [raised |-> "RuntimeError", cause |-> e, logged |-> -1]
    ELSE [raised |-> "none", cause |-> "none", logged |-> count]
Handler(e, count) ==
    IF IsFailedPrecondition(e)
    THEN [raised |-> "RuntimeError", cause |-> e, logged |-> -1]
    ELSE IF IsGoogleAPIError(e)
    THEN [raised |-> e, cause |-> "none", logged |-> count]
    ELSE [raised |-> e, cause |-> "none", logged |-> count]

\* entry of add_documents_to_vector_store; when the function is not the one under
\* study (active = FALSE) it is never called
IngInit(active) ==
    /\ documents \in IF active THEN {[c \in 1..n |-> c] : n \in 0..MaxChunks} ELSE {<<>>}
    /\ batch_size \in IF active THEN 0..MaxBatch ELSE {1}
    /\ i = 0
    /\ added_count = 0
    /\ upserts = <<>>
    /\ ingPc = IF active THEN "start" ELSE "idle"
    /\ ingRaised = "none"
    /\ ingCause = "none"
    /\ ingLogged = -1
    /\ portError = "none"

\* if not documents: return
AddDocsEmpty ==
    /\ ingPc = "start"
    /\ documents = <<>>
    /\ ingPc' = "returned"
    /\ UNCHANGED <<documents, batch_size, i, added_count, upserts, ingRaised,
                   ingCause, ingLogged, portError>>
    /\ UNCHANGED notIngVars

\* total_docs = len(documents); added_count = 0; try: enter the for loop
AddDocsBegin ==
    /\ ingPc = "start"
    /\ documents # <<>>
    /\ i' = 0
    /\ added_count' = 0
    /\ ingPc' = "loop"
    /\ UNCHANGED <<documents, batch_size, upserts, ingRaised, ingCause, ingLogged,
                   portError>>
    /\ UNCHANGED notIngVars

\* range(0, total_docs, 0) raises ValueError inside the try: except Exception
AddDocsRangeError ==
    /\ ingPc = "loop"
    /\ batch_size = 0
    /\ LET h == Handler("ValueError", added_count) IN
        /\ ingRaised' = h.raised
        /\ ingCause' = h.cause
        /\ ingLogged' = h.logged
    /\ ingPc' = "raised"
    /\ UNCHANGED <<documents, batch_size, i, added_count, upserts, portError>>
    /\ UNCHANGED notIngVars

\* one iteration whose vector_store.add_documents(batch) returns
AddDocsBatchOk ==
    /\ ingPc = "loop"
    /\ batch_size > 0
    /\ i < total_docs
    /\ LET batch == Batch(documents, i, batch_size) IN
        /\ upserts' = Append(upserts, batch)
        /\ added_count' = added_count + Len(batch)
    /\ i' = i + batch_size
    /\ UNCHANGED <<documents, batch_size, ingPc, ingRaised, ingCause, ingLogged,
                   portError>>
    /\ UNCHANGED notIngVars

\* one iteration whose vector_store.add_documents(batch) raises e
AddDocsBatchFail(e) ==
    /\ ingPc = "loop"
    /\ batch_size > 0
    /\ i < total_docs
    /\ upserts' = Append(upserts, Batch(documents, i, batch_size))
    /\ portError' = e
    /\ LET h == Handler(e, added_count) IN
        /\ ingRaised' = h.raised
        /\ ingCause' = h.cause
        /\ ingLogged' = h.logged
    /\ ingPc' = "raised"
    /\ UNCHANGED <<documents, batch_size, i, added_count>>
    /\ UNCHANGED notIngVars

\* the loop is exhausted: log added_count/total_docs and return
AddDocsFinish ==
    /\ ingPc = "loop"
    /\ batch_size > 0
    /\ i >= total_docs
    /\ ingLogged' = added_count
    /\ ingPc' = "returned"
    /\ UNCHANGED <<documents, batch_size, i, added_count, upserts, ingRaised, ingCause,
                   portError>>
    /\ UNCHANGED notIngVars

IngNext ==
    \/ AddDocsEmpty
    \/ AddDocsBegin
    \/ AddDocsRangeError
    \/ AddDocsBatchOk
    \/ \E e \in PortErrors : AddDocsBatchFail(e)
    \/ AddDocsFinish

\* =====================================================================
\* query_vector_store
\* =====================================================================
\* `not config.VECTOR_SEARCH_DEPLOYED_INDEX_ID`: unset (None) or empty
DeployedIdValues == {"None", "", "deployed_1"}

NotSetMutNoneOnly(id) == id = "None"
NotSet(id) == id \in {"None", ""}

\* (Document, score) pairs the Index Port can return; scoreIsFloat = FALSE is a
\* score that the :.4f format of the debug line cannot format
Hits == [doc : {"d1", "d2"}, score : {1, 2}, scoreIsFloat : BOOLEAN]

PortResults(kk) ==
    {<<>>} \cup {<<h>> : h \in Hits}
           \cup (IF kk >= 2 THEN {<<g, h>> : g \in Hits, h \in Hits} ELSE {})

\* the debug line after a successful search raises iff the top score does not format
DebugLineRaises(res) == res # <<>> /\ ~res[1].scoreIsFloat

\* value of `results` when the function returns after the port raised
ResultsOnErrorMutStale(prior) == <<[doc |-> "d1", score |-> 1, scoreIsFloat |-> TRUE]>>
ResultsOnError(prior) == prior

QueryInit(active) ==
    /\ deployed_index_id \in IF active THEN DeployedIdValues ELSE {"None"}
    /\ query \in IF active THEN {"what is rag", ""} ELSE {""}
    /\ k \in IF active THEN 1..MaxK ELSE {1}
    /\ qPc = IF active THEN "start" ELSE "idle"
    /\ qRaised = "none"
    /\ results = <<>>
    /\ qPortCalls = 0
    /\ qPortReply = "none"
    /\ qPortResults = <<>>
    /\ qErrorLogged = FALSE

\* if not config.VECTOR_SEARCH_DEPLOYED_INDEX_ID: raise ValueError
QueryNoDeployedIndex ==
    /\ qPc = "start"
    /\ NotSet(deployed_index_id)
    /\ qRaised' = "ValueError"
    /\ qPc' = "raised"
    /\ UNCHANGED <<deployed_index_id, query, k, results, qPortCalls, qPortReply,
                   qPortResults, qErrorLogged>>
    /\ UNCHANGED notQueryVars

\* the search returns res; the debug line may raise inside the try
QuerySearchOk ==
    /\ qPc = "start"
    /\ ~NotSet(deployed_index_id)
    /\ \E res \in PortResults(k) :
        /\ qPortResults' = res
        /\ results' = res
        /\ qErrorLogged' = DebugLineRaises(res)
    /\ qPortCalls' = qPortCalls + 1
    /\ qPortReply' = "ok"
    /\ qPc' = "returned"
    /\ UNCHANGED <<deployed_index_id, query, k, qRaised>>
    /\ UNCHANGED notQueryVars

\* the search raises e: except GoogleAPIError / except Exception, then return results
QuerySearchFail(e) ==
    /\ qPc = "start"
    /\ ~NotSet(deployed_index_id)
    /\ qPortCalls' = qPortCalls + 1
    /\ qPortReply' = e
    /\ qPortResults' = <<>>
    /\ results' = ResultsOnError(<<>>)
    /\ qErrorLogged' = TRUE
    /\ qPc' = "returned"
    /\ UNCHANGED <<deployed_index_id, query, k, qRaised>>
    /\ UNCHANGED notQueryVars

QueryNext ==
    \/ QueryNoDeployedIndex
    \/ QuerySearchOk
    \/ \E e \in PortErrors : QuerySearchFail(e)

\* =====================================================================
\* split_documents and the RecursiveCharacterTextSplitter it configures
\* (chunk_size, chunk_overlap, length_function=len, is_separator_regex=False,
\*  add_start_index=True; defaults keep_separator=True, strip_whitespace=True,
\*  separators=["\n\n", "\n", " ", ""])
\* =====================================================================
Separators == << <<"\n", "\n">>, <<"\n">>, <<" ">>, <<>> >>

\* whitespace of str.strip() within the alphabet of the model
IsSpace(c) == c \in {" ", "\n"}

RECURSIVE LStrip(_)
LStrip(t) == IF t # <<>> /\ IsSpace(Head(t)) THEN LStrip(Tail(t)) ELSE t

RECURSIVE RStrip(_)
RStrip(t) ==
    IF t # <<>> /\ IsSpace(t[Len(t)]) THEN RStrip(SubSeq(t, 1, Len(t) - 1)) ELSE t

\* str.strip()
Strip(t) == RStrip(LStrip(t))

\* text.find(sub, start): lowest 0-based index >= start where sub occurs, else -1
Find(text, sub, start) ==
    LET hits == {p \in start..(Len(text) - Len(sub)) :
                    SubSeq(text, p + 1, p + Len(sub)) = sub}
    IN  IF hits = {} THEN -1 ELSE CHOOSE p \in hits : \A q \in hits : p <= q

\* re.search(re.escape(sep), text)
Contains(text, sep) == Find(text, sep, 0) # -1

\* re.split(sep, text): the texts between the leftmost non-overlapping matches
RECURSIVE ReSplit(_, _)
ReSplit(text, sep) ==
    LET p == Find(text, sep, 0)
    IN  IF p = -1 THEN <<text>>
        ELSE <<SubSeq(text, 1, p)>>
             \o ReSplit(SubSeq(text, p + Len(sep) + 1, Len(text)), sep)

\* _split_text_with_regex(text, separator, keep_separator=True): each separator
\* is kept at the start of the piece that follows it; empty pieces are dropped
SplitTextWithRegex(text, sep) ==
    IF sep # <<>>
    THEN LET f == ReSplit(text, sep)
             splits == <<f[1]>> \o [j \in 1..(Len(f) - 1) |-> sep \o f[j + 1]]
         IN  SelectSeq(splits, LAMBDA x : x # <<>>)
    ELSE [j \in 1..Len(text) |-> <<text[j]>>]

\* separator.join(docs)
RECURSIVE Join(_, _)
Join(docs, sep) ==
    IF docs = <<>> THEN <<>>
    ELSE IF Len(docs) = 1 THEN docs[1]
    ELSE docs[1] \o sep \o Join(Tail(docs), sep)

\* TextSplitter._join_docs with strip_whitespace=True; <<>> stands for None
JoinDocsMutNoStrip(docs, sep) == Join(docs, sep)
JoinDocs(docs, sep) == Strip(Join(docs, sep))

\* the while loop of _merge_splits: drop splits from the front of current_doc
RECURSIVE PopLoop(_, _, _, _, _, _)
PopLoop(cur, total, len, sepLen, cs, ov) ==
    IF \/ total > ov
       \/ (total + len + (IF Len(cur) > 0 THEN sepLen ELSE 0) > cs /\ total > 0)
    THEN PopLoop(Tail(cur),
                 total - (Len(cur[1]) + (IF Len(cur) > 1 THEN sepLen ELSE 0)),
                 len, sepLen, cs, ov)
    ELSE [cur |-> cur, total |-> total]

\* what is kept of current_doc as overlap once a chunk has been emitted
KeepOverlapMutNone(cur, total, len, sepLen, cs, ov) == [cur |-> <<>>, total |-> 0]
KeepOverlap(cur, total, len, sepLen, cs, ov) == PopLoop(cur, total, len, sepLen, cs, ov)

\* one iteration of `for d in splits` in _merge_splits; st = [docs, cur, total]
MergeStep(st, d, sep, cs, ov) ==
    LET len == Len(d)
        sl == Len(sep)
        emit == /\ st.total + len + (IF Len(st.cur) > 0 THEN sl ELSE 0) > cs
                /\ Len(st.cur) > 0
        doc == JoinDocs(st.cur, sep)
        docs1 == IF emit /\ doc # <<>> THEN Append(st.docs, doc) ELSE st.docs
        kept == IF emit THEN KeepOverlap(st.cur, st.total, len, sl, cs, ov)
                ELSE [cur |-> st.cur, total |-> st.total]
        cur2 == Append(kept.cur, d)
    IN  [docs |-> docs1, cur |-> cur2,
         total |-> kept.total + len + (IF Len(cur2) > 1 THEN sl ELSE 0)]

RECURSIVE MergeLoop(_, _, _, _, _, _)
MergeLoop(splits, j, st, sep, cs, ov) ==
    IF j > Len(splits) THEN st
    ELSE LET next == MergeStep(st, splits[j], sep, cs, ov)
         IN  Strict(next, MergeLoop(splits, j + 1, next, sep, cs, ov))

\* TextSplitter._merge_splits
MergeSplits(splits, sep, cs, ov) ==
    LET st == MergeLoop(splits, 1, [docs |-> <<>>, cur |-> <<>>, total |-> 0],
                        sep, cs, ov)
        doc == JoinDocs(st.cur, sep)
    IN  IF doc # <<>> THEN Append(st.docs, doc) ELSE st.docs

\* the separator loop at the head of _split_text
RECURSIVE PickSeparator(_, _, _)
PickSeparator(text, seps, j) ==
    IF j > Len(seps)
    THEN [separator |-> seps[Len(seps)], new_separators |-> <<>>]
    ELSE IF seps[j] = <<>>
    THEN [separator |-> <<>>, new_separators |-> <<>>]
    ELSE IF Contains(text, seps[j])
    THEN [separator |-> seps[j], new_separators |-> SubSeq(seps, j + 1, Len(seps))]
    ELSE PickSeparator(text, seps, j + 1)

\* RecursiveCharacterTextSplitter._split_text; with keep_separator=True the pieces
\* are merged with the empty separator
RECURSIVE SplitText(_, _, _, _)
RECURSIVE SplitLoop(_, _, _, _, _, _)
SplitLoop(splits, j, st, new_separators, cs, ov) ==
    IF j > Len(splits) THEN st
    ELSE LET x == splits[j]
             merged == IF st.good # <<>> THEN MergeSplits(st.good, <<>>, cs, ov)
                       ELSE <<>>
             st2 == IF Len(x) < cs
                    THEN [final |-> st.final, good |-> Append(st.good, x)]
                    ELSE [final |-> st.final \o merged
                                    \o (IF new_separators = <<>> THEN <<x>>
                                        ELSE SplitText(x, new_separators, cs, ov)),
                          good |-> <<>>]
         IN  Strict(st2, SplitLoop(splits, j + 1, st2, new_separators, cs, ov))

SplitText(text, seps, cs, ov) ==
    LET pick == PickSeparator(text, seps, 1)
        splits == SplitTextWithRegex(text, pick.separator)
        st == SplitLoop(splits, 1, [final |-> <<>>, good |-> <<>>],
                        pick.new_separators, cs, ov)
    IN  IF st.good # <<>> THEN st.final \o MergeSplits(st.good, <<>>, cs, ov)
        ELSE st.final

\* the chunk loop of TextSplitter.create_documents with add_start_index=True
RECURSIVE StartIndexLoop(_, _, _, _, _, _, _, _)
StartIndexLoop(parent, text, pieces, j, index, previous_chunk_len, ov, acc) ==
    IF j > Len(pieces) THEN acc
    ELSE LET offset == index + previous_chunk_len - ov
             found == Find(text, pieces[j], Max(0, offset))
             acc2 == Append(acc, [parent |-> parent, start_index |-> found,
                                  page_content |-> pieces[j]])
         IN  Strict(acc2, StartIndexLoop(parent, text, pieces, j + 1, found,
                                         Len(pieces[j]), ov, acc2))

\* the chunks create_documents makes of document number parent
ChunksOf(parent, text, cs, ov) ==
    StartIndexLoop(parent, text, SplitText(text, Separators, cs, ov), 1, 0, 0, ov, <<>>)

\* TextSplitter.__init__: the only check of the two sizes
CtorRaises(cs, ov) == ov > cs

\* copy.deepcopy(metadata) runs once per chunk: a document whose metadata cannot
\* be copied makes create_documents raise as soon as it yields a first chunk
DocRaises(doc, cs, ov) == ~doc.copyable /\ SplitText(doc.text, Separators, cs, ov) # <<>>

\* except Exception as e: raise RuntimeError(...) from e
SplitErrorKindMutReraise(e) == e
SplitErrorKind(e) == "RuntimeError"

\* ---------------------------------------------------- inputs of the splitter
Alphabet == {"a", "b", " ", "\n"}

TextsUpTo(n) == UNION {[1..m -> Alphabet] : m \in 0..n}

\* one document of any text up to MaxTextLen
SingleDocs == {<<[text |-> t, copyable |-> TRUE]>> : t \in TextsUpTo(MaxTextLen)}

\* lists of documents over a few texts, some with metadata that cannot be copied
DocTexts == {<<>>, <<" ">>, <<"a", "b">>, <<"a", " ", "b">>}

SmallDocs == [text : DocTexts, copyable : BOOLEAN]

MultiDocs == UNION {[1..m -> SmallDocs] : m \in 0..MaxSplitDocs}

\* "A"*2500 with chunk_size 1000 and chunk_overlap 100, all three divided by 100
ExampleText == [j \in 1..25 |-> "a"]

ExampleInput == <<10, 1, <<[text |-> ExampleText, copyable |-> TRUE]>> >>

SplitInputs ==
    ((1..MaxChunkSize) \X (0..MaxChunkSize) \X (SingleDocs \cup MultiDocs))
        \cup {ExampleInput}

SplitInit(active) ==
    /\ \E inp \in IF active THEN SplitInputs ELSE {<<1, 0, <<>> >>} :
        /\ CHUNK_SIZE = inp[1]
        /\ CHUNK_OVERLAP = inp[2]
        /\ split_input = inp[3]
    /\ spPc = IF active THEN "start" ELSE "idle"
    /\ spIdx = 1
    /\ spAcc = <<>>
    /\ chunks = <<>>
    /\ spRaised = "none"
    /\ spCause = "none"

\* if not documents: return []
SplitEmpty ==
    /\ spPc = "start"
    /\ split_input = <<>>
    /\ spPc' = "returned"
    /\ chunks' = <<>>
    /\ UNCHANGED <<CHUNK_SIZE, CHUNK_OVERLAP, split_input, spIdx, spAcc, spRaised,
                   spCause>>
    /\ UNCHANGED notSplitVars

\* RecursiveCharacterTextSplitter(...) raises: the call is outside the try block
SplitCtorError ==
    /\ spPc = "start"
    /\ split_input # <<>>
    /\ CtorRaises(CHUNK_SIZE, CHUNK_OVERLAP)
    /\ spPc' = "raised"
    /\ spRaised' = "ValueError"
    /\ UNCHANGED <<CHUNK_SIZE, CHUNK_OVERLAP, split_input, spIdx, spAcc, chunks,
                   spCause>>
    /\ UNCHANGED notSplitVars

\* the splitter is built; chunks = []; text_splitter.split_documents starts
SplitBegin ==
    /\ spPc = "start"
    /\ split_input # <<>>
    /\ ~CtorRaises(CHUNK_SIZE, CHUNK_OVERLAP)
    /\ spPc' = "splitting"
    /\ spIdx' = 1
    /\ spAcc' = <<>>
    /\ chunks' = <<>>
    /\ UNCHANGED <<CHUNK_SIZE, CHUNK_OVERLAP, split_input, spRaised, spCause>>
    /\ UNCHANGED notSplitVars

\* create_documents handles the next document
SplitDocOk ==
    /\ spPc = "splitting"
    /\ spIdx <= Len(split_input)
    /\ ~DocRaises(split_input[spIdx], CHUNK_SIZE, CHUNK_OVERLAP)
    /\ spAcc' = spAcc \o ChunksOf(spIdx, split_input[spIdx].text, CHUNK_SIZE,
                                  CHUNK_OVERLAP)
    /\ spIdx' = spIdx + 1
    /\ UNCHANGED <<CHUNK_SIZE, CHUNK_OVERLAP, split_input, spPc, chunks, spRaised,
                   spCause>>
    /\ UNCHANGED notSplitVars

\* create_documents raises on the next document: except Exception
SplitDocFail ==
    /\ spPc = "splitting"
    /\ spIdx <= Len(split_input)
    /\ DocRaises(split_input[spIdx], CHUNK_SIZE, CHUNK_OVERLAP)
    /\ spPc' = "raised"
    /\ spRaised' = SplitErrorKind("TypeError")
    /\ spCause' = "TypeError"
    /\ UNCHANGED <<CHUNK_SIZE, CHUNK_OVERLAP, split_input, spIdx, spAcc, chunks>>
    /\ UNCHANGED notSplitVars

\* split_documents returned: chunks = its result; return chunks
SplitFinish ==
    /\ spPc = "splitting"
    /\ spIdx > Len(split_input)
    /\ chunks' = spAcc
    /\ spPc' = "returned"
    /\ UNCHANGED <<CHUNK_SIZE, CHUNK_OVERLAP, split_input, spIdx, spAcc, spRaised,
                   spCause>>
    /\ UNCHANGED notSplitVars

SplitNext ==
    \/ SplitEmpty
    \/ SplitCtorError
    \/ SplitBegin
    \/ SplitDocOk
    \/ SplitDocFail
    \/ SplitFinish

\* =====================================================================
\* load_documents
\* =====================================================================
\* config.ALLOWED_SUFFIXES
ALLOWED_SUFFIXES == <<".pdf", ".txt", ".md">>

\* DEFAULT_LOADER_MAP
DEFAULT_LOADER_MAP ==
    [s \in {".pdf", ".txt", ".md"} |->
        CASE s = ".pdf" -> "PyMuPDFLoader"
          [] s = ".txt" -> "TextLoader"
          [] s = ".md" -> "UnstructuredMarkdownLoader"]

\* str.lower() on the suffixes of the model
Lower(s) ==
    CASE s = ".PDF" -> ".pdf"
      [] s = ".TXT" -> ".txt"
      [] s = ".MD" -> ".md"
      [] OTHER -> s

\* loader_map.get(suffix.lower()); "None" when there is no entry
SpecificLoader(suffix) ==
    IF Lower(suffix) \in DOMAIN DEFAULT_LOADER_MAP
    THEN DEFAULT_LOADER_MAP[Lower(suffix)]
    ELSE "None"

\* silent_errors=True
SilentErrorsMutOff == FALSE
SilentErrors == TRUE

\* glob "**/*{suffix}" (recursive) or "*{suffix}": file names are matched
\* case-sensitively, subdirectories only when recursive
Globbed(suffix) ==
    {f \in files : f.suffix = suffix /\ (recursive \/ f.loc # "nested")}

\* the files DirectoryLoader hands to the loader class: globbed and visible
\* (no path part starting with a dot)
Items(suffix) == {f \in Globbed(suffix) : f.loc # "hidden"}

\* the documents a loader yields for one file before it finishes or raises:
\* PyMuPDFLoader yields one document per page, the others one per file
FilePages(f) == IF SpecificLoader(f.suffix) = "PyMuPDFLoader" THEN PdfPages ELSE 1

FileDocs(f) ==
    CASE f.parse = "ok" -> [p \in 1..FilePages(f) |-> [source |-> f, page |-> p - 1]]
      [] f.parse = "partial" -> <<[source |-> f, page |-> 0]>>
      [] OTHER -> <<>>

\* the file's loader raises
FileRaises(f) == f.parse # "ok"

\* orders in which the worker threads can complete the files
Orders(S) == {o \in [1..Cardinality(S) -> S] : \A a, b \in DOMAIN o : o[a] = o[b] => a = b}

\* loader.load() for the files taken in order o
DocsInOrder(o) == Flatten([j \in DOMAIN o |-> FileDocs(o[j])])

\* where an exception leaving DirectoryLoader(...)/loader.load() can come from:
\* the loader itself, or one file's loader when errors are not silenced
ErrorOrigins(suffix) ==
    {"loader"} \cup
        (IF ~SilentErrors /\ \E f \in Items(suffix) : FileRaises(f) THEN {"file"} ELSE {})

\* exception classes the two except clauses distinguish
LoadErrors == {"ImportError", "OSError"}

FileSuffixes == {".pdf", ".txt", ".PDF", ".csv"}

FileKinds ==
    {f \in [suffix : FileSuffixes, loc : {"top", "nested", "hidden"},
            parse : {"ok", "fail", "partial"}] :
        f.parse = "partial" => f.suffix = ".pdf"}

\* directories holding at most n of these files
RECURSIVE DirsUpTo(_)
DirsUpTo(n) ==
    IF n = 0 THEN {{}}
    ELSE LET smaller == DirsUpTo(n - 1)
         IN  smaller \cup {S \cup {f} : S \in smaller, f \in FileKinds}

FileSystems == DirsUpTo(MaxFiles)

AllowedOptions == {ALLOWED_SUFFIXES, <<".PDF", ".csv", ".txt">>}

LoadInit(active) ==
    /\ source_is_dir \in (IF active THEN BOOLEAN ELSE {TRUE})
    /\ files \in (IF active /\ source_is_dir THEN FileSystems ELSE {{}})
    /\ allowed_suffixes \in (IF active /\ source_is_dir THEN AllowedOptions
                             ELSE {ALLOWED_SUFFIXES})
    /\ recursive \in (IF active /\ source_is_dir THEN BOOLEAN ELSE {TRUE})
    /\ ldPc = IF active THEN "start" ELSE "idle"
    /\ ldIdx = 1
    /\ loaded_docs = <<>>
    /\ loaders_used = {}
    /\ files_failed = 0
    /\ ldRaised = "none"
    /\ ldHandled = {}
    /\ ldWarned = FALSE

\* if not source_path.is_dir(): raise FileNotFoundError
LoadNotDir ==
    /\ ldPc = "start"
    /\ ~source_is_dir
    /\ ldPc' = "raised"
    /\ ldRaised' = "FileNotFoundError"
    /\ UNCHANGED <<source_is_dir, files, allowed_suffixes, recursive, ldIdx, loaded_docs,
                   loaders_used, files_failed, ldHandled, ldWarned>>
    /\ UNCHANGED notLoadVars

\* loaded_docs = []; loaders_used = set(); files_failed = 0
LoadBegin ==
    /\ ldPc = "start"
    /\ source_is_dir
    /\ ldPc' = "loop"
    /\ ldIdx' = 1
    /\ loaded_docs' = <<>>
    /\ loaders_used' = {}
    /\ files_failed' = 0
    /\ UNCHANGED <<source_is_dir, files, allowed_suffixes, recursive, ldRaised,
                   ldHandled, ldWarned>>
    /\ UNCHANGED notLoadVars

\* if not specific_loader: warning; continue
LoadSuffixNoLoader ==
    /\ ldPc = "loop"
    /\ ldIdx <= Len(allowed_suffixes)
    /\ SpecificLoader(allowed_suffixes[ldIdx]) = "None"
    /\ ldIdx' = ldIdx + 1
    /\ UNCHANGED <<source_is_dir, files, allowed_suffixes, recursive, ldPc, loaded_docs,
                   loaders_used, files_failed, ldRaised, ldHandled, ldWarned>>
    /\ UNCHANGED notLoadVars

\* docs_for_suffix = loader.load() returns; extend loaded_docs when non-empty
LoadSuffixOk ==
    /\ ldPc = "loop"
    /\ ldIdx <= Len(allowed_suffixes)
    /\ SpecificLoader(allowed_suffixes[ldIdx]) # "None"
    /\ SilentErrors \/ \A f \in Items(allowed_suffixes[ldIdx]) : ~FileRaises(f)
    /\ \E o \in Orders(Items(allowed_suffixes[ldIdx])) :
        LET docs_for_suffix == DocsInOrder(o) IN
        /\ loaded_docs' = loaded_docs \o docs_for_suffix
        /\ loaders_used' = IF docs_for_suffix # <<>>
                           THEN loaders_used \cup {SpecificLoader(allowed_suffixes[ldIdx])}
                           ELSE loaders_used
    /\ ldIdx' = ldIdx + 1
    /\ UNCHANGED <<source_is_dir, files, allowed_suffixes, recursive, ldPc, files_failed,
                   ldRaised, ldHandled, ldWarned>>
    /\ UNCHANGED notLoadVars

\* DirectoryLoader(...) or loader.load() raises: except ImportError / except
\* Exception, both of which only log and add the globbed files to files_failed
LoadSuffixFail(e) ==
    /\ ldPc = "loop"
    /\ ldIdx <= Len(allowed_suffixes)
    /\ SpecificLoader(allowed_suffixes[ldIdx]) # "None"
    /\ \E origin \in ErrorOrigins(allowed_suffixes[ldIdx]) :
        ldHandled' = ldHandled \cup
            {[suffix |-> allowed_suffixes[ldIdx], error |-> e, origin |-> origin]}
    /\ files_failed' = files_failed + Cardinality(Globbed(allowed_suffixes[ldIdx]))
    /\ ldIdx' = ldIdx + 1
    /\ UNCHANGED <<source_is_dir, files, allowed_suffixes, recursive, ldPc, loaded_docs,
                   loaders_used, ldRaised, ldWarned>>
    /\ UNCHANGED notLoadVars

\* after the loop: warning when loaded_docs is empty; return loaded_docs
LoadFinish ==
    /\ ldPc = "loop"
    /\ ldIdx > Len(allowed_suffixes)
    /\ ldWarned' = (loaded_docs = <<>>)
    /\ ldPc' = "returned"
    /\ UNCHANGED <<source_is_dir, files, allowed_suffixes, recursive, ldIdx, loaded_docs,
                   loaders_used, files_failed, ldRaised, ldHandled>>
    /\ UNCHANGED notLoadVars

LoadNext ==
    \/ LoadNotDir
    \/ LoadBegin
    \/ LoadSuffixNoLoader
    \/ LoadSuffixOk
    \/ \E e \in LoadErrors : LoadSuffixFail(e)
    \/ LoadFinish

\* =====================================================================
\* gcp_clients
\* =====================================================================
\* the empty cache slot; handles are positive object identities
None == 0

\* if _vertex_..._client is None
IsNoneMutAlways(c) == TRUE
IsNone(c) == c = None

\* a new object's identity
Fresh(objs) == Cardinality(objs) + 1

\* environment values of the configuration
ProjectValues == {"None", "my-project"}

IndexValues == {"None", "index_1"}

EndpointValues == {"None", "endpoint_1"}

BucketValues == {"None", "bucket", "gs://bucket"}

\* all([...]) over the four settings
VectorSearchConfigured(project, index, endpoint, bucket) ==
    ~NotSet(project) /\ ~NotSet(index) /\ ~NotSet(endpoint) /\ ~NotSet(bucket)

\* staging_bucket.startswith("gs://"), on the bucket names of the model
StartsWithGs(name) == name \in {"gs://bucket"}

\* staging_bucket, with "gs://" prepended unless already there
StagingBucket(name) == IF StartsWithGs(name) THEN name ELSE "gs://" \o name

\* what the Embedding Port does during an initialization: nothing goes wrong,
\* VertexAIEmbeddings(...) raises, or the test embed_query("test") raises
EmbEnvs ==
    {[step |-> "none", error |-> "none"]} \cup
        [step : {"construct", "embed_query"}, error : {"GoogleAPIError", "TypeError"}]

\* what VertexAIVectorSearch(...) does: returns, or raises
VsEnvs ==
    {[step |-> "none", error |-> "none"]} \cup
        [step : {"construct"}, error : {"NotFound", "GoogleAPIError", "TypeError"}]

\* get_vertex_embeddings_client() run with the cache slot holding cache:
\* the slot afterwards, the handle returned, the exception raised, and the
\* object built (None if none), with whether its test embedding succeeded
GetEmbeddings(cache, project, env, fresh) ==
    IF ~IsNone(cache)
    THEN [client |-> cache, returned |-> cache, raised |-> "none", cause |-> "none",
          built |-> None, tested |-> FALSE]
    ELSE IF NotSet(project)
    THEN [client |-> cache, returned |-> None, raised |-> "ValueError", cause |-> "none",
          built |-> None, tested |-> FALSE]
    ELSE IF env.step = "construct"
    THEN [client |-> cache, returned |-> None, raised |-> "RuntimeError",
          cause |-> env.error, built |-> None, tested |-> FALSE]
    ELSE IF env.step = "embed_query"
    THEN [client |-> fresh, returned |-> None, raised |-> "RuntimeError",
          cause |-> env.error, built |-> fresh, tested |-> FALSE]
    ELSE [client |-> fresh, returned |-> fresh, raised |-> "none", cause |-> "none",
          built |-> fresh, tested |-> TRUE]

\* the objects after a get_vertex_embeddings_client() with outcome r
HeapAfterEmbeddings(objs, r) ==
    IF r.built = None THEN objs
    ELSE objs \cup {[id |-> r.built, kind |-> "embeddings", tested |-> r.tested,
                     embedding |-> None, staging_bucket |-> ""]}

ClientInit(active) ==
    /\ GCP_PROJECT_ID \in (IF active THEN ProjectValues ELSE {"None"})
    /\ VECTOR_SEARCH_INDEX_ID \in (IF active THEN IndexValues ELSE {"None"})
    /\ VECTOR_SEARCH_INDEX_ENDPOINT_ID \in (IF active THEN EndpointValues ELSE {"None"})
    /\ GCS_STAGING_BUCKET_NAME \in (IF active THEN BucketValues ELSE {"None"})
    /\ vertex_embeddings_client = None
    /\ vertex_vector_search_client = None
    /\ heap = {}
    /\ cliCalls = IF active THEN 0 ELSE MaxCalls
    /\ cliCall = "none"
    /\ cliReturned = None
    /\ cliRaised = "none"
    /\ cliCause = "none"
    /\ cliBuilt = {}
    /\ cliHanded = {}
    /\ cliRetired = {}

\* a call of get_vertex_embeddings_client()
CallGetEmbeddings(env) ==
    /\ cliCalls < MaxCalls
    /\ LET r == GetEmbeddings(vertex_embeddings_client, GCP_PROJECT_ID, env, Fresh(heap))
       IN  /\ vertex_embeddings_client' = r.client
           /\ heap' = HeapAfterEmbeddings(heap, r)
           /\ cliReturned' = r.returned
           /\ cliRaised' = r.raised
           /\ cliCause' = r.cause
           /\ cliBuilt' = cliBuilt \cup ({r.built} \ {None})
           /\ cliHanded' = cliHanded \cup ({r.returned} \ {None})
    /\ cliCall' = "get_embeddings"
    /\ cliCalls' = cliCalls + 1
    /\ UNCHANGED <<configVars, vertex_vector_search_client, cliRetired>>
    /\ UNCHANGED notClientVars

\* a call of get_vertex_vector_search_client()
CallGetVectorSearch(embEnv, vsEnv) ==
    /\ cliCalls < MaxCalls
    /\ cliCall' = "get_vector_search"
    /\ cliCalls' = cliCalls + 1
    /\ IF ~IsNone(vertex_vector_search_client)
       THEN \* cached: return it
            /\ cliReturned' = vertex_vector_search_client
            /\ cliRaised' = "none"
            /\ cliCause' = "none"
            /\ cliHanded' = cliHanded \cup {vertex_vector_search_client}
            /\ UNCHANGED <<vertex_embeddings_client, vertex_vector_search_client, heap,
                           cliBuilt>>
       ELSE IF ~VectorSearchConfigured(GCP_PROJECT_ID, VECTOR_SEARCH_INDEX_ID,
                                       VECTOR_SEARCH_INDEX_ENDPOINT_ID,
                                       GCS_STAGING_BUCKET_NAME)
       THEN \* raise ValueError("Missing required Vector Search config ...")
            /\ cliReturned' = None
            /\ cliRaised' = "ValueError"
            /\ cliCause' = "none"
            /\ UNCHANGED <<vertex_embeddings_client, vertex_vector_search_client, heap,
                           cliBuilt, cliHanded>>
       ELSE LET r == GetEmbeddings(vertex_embeddings_client, GCP_PROJECT_ID, embEnv,
                                   Fresh(heap))
                heap1 == HeapAfterEmbeddings(heap, r)
                built1 == cliBuilt \cup ({r.built} \ {None})
                handed1 == cliHanded \cup ({r.returned} \ {None})
            IN  /\ vertex_embeddings_client' = r.client
                /\ IF r.raised # "none"
                   THEN \* embeddings_client = get_vertex_embeddings_client() raises
                        /\ cliReturned' = None
                        /\ cliRaised' = r.raised
                        /\ cliCause' = r.cause
                        /\ heap' = heap1
                        /\ cliBuilt' = built1
                        /\ cliHanded' = handed1
                        /\ UNCHANGED vertex_vector_search_client
                   ELSE IF vsEnv.step = "construct"
                   THEN \* VertexAIVectorSearch(...) raises: the except clauses
                        /\ cliReturned' = None
                        /\ cliRaised' = "RuntimeError"
                        /\ cliCause' = vsEnv.error
                        /\ heap' = heap1
                        /\ cliBuilt' = built1
                        /\ cliHanded' = handed1
                        /\ UNCHANGED vertex_vector_search_client
                   ELSE \* the client is built around embeddings_client and cached
                        /\ vertex_vector_search_client' = Fresh(heap1)
                        /\ heap' = heap1 \cup
                              {[id |-> Fresh(heap1), kind |-> "vector_search",
                                tested |-> FALSE, embedding |-> r.returned,
                                staging_bucket |-> StagingBucket(GCS_STAGING_BUCKET_NAME)]}
                        /\ cliReturned' = Fresh(heap1)
                        /\ cliRaised' = "none"
                        /\ cliCause' = "none"
                        /\ cliBuilt' = built1 \cup {Fresh(heap1)}
                        /\ cliHanded' = handed1 \cup {Fresh(heap1)}
    /\ UNCHANGED <<configVars, cliRetired>>
    /\ UNCHANGED notClientVars

\* a call of reset_clients()
CallResetClients ==
    /\ cliCalls < MaxCalls
    /\ vertex_embeddings_client' = None
    /\ vertex_vector_search_client' = None
    /\ cliCall' = "reset"
    /\ cliCalls' = cliCalls + 1
    /\ cliReturned' = None
    /\ cliRaised' = "none"
    /\ cliCause' = "none"
    /\ cliRetired' = cliRetired \cup cliBuilt
    /\ cliBuilt' = {}
    /\ cliHanded' = {}
    /\ UNCHANGED <<configVars, heap>>
    /\ UNCHANGED notClientVars

ClientNext ==
    \/ \E env \in EmbEnvs : CallGetEmbeddings(env)
    \/ \E embEnv \in EmbEnvs, vsEnv \in VsEnvs : CallGetVectorSearch(embEnv, vsEnv)
    \/ CallResetClients

\* =====================================================================
\* specifications
\* =====================================================================
InitIngest == IngInit(TRUE) /\ QueryInit(FALSE) /\ SplitInit(FALSE) /\ LoadInit(FALSE) /\
    ClientInit(FALSE)

SpecIngest == InitIngest /\ [][IngNext]_vars

InitQuery == IngInit(FALSE) /\ QueryInit(TRUE) /\ SplitInit(FALSE) /\ LoadInit(FALSE) /\
    ClientInit(FALSE)

SpecQuery == InitQuery /\ [][QueryNext]_vars

InitSplit == IngInit(FALSE) /\ QueryInit(FALSE) /\ SplitInit(TRUE) /\ LoadInit(FALSE) /\
    ClientInit(FALSE)

SpecSplit == InitSplit /\ [][SplitNext]_vars

InitLoad == IngInit(FALSE) /\ QueryInit(FALSE) /\ SplitInit(FALSE) /\ LoadInit(TRUE) /\
    ClientInit(FALSE)

SpecLoad == InitLoad /\ [][LoadNext]_vars

InitClients == IngInit(FALSE) /\ QueryInit(FALSE) /\ SplitInit(FALSE) /\ LoadInit(FALSE) /\
    ClientInit(TRUE)

SpecClients == InitClients /\ [][ClientNext]_vars

\* =====================================================================
\* claims: add_documents_to_vector_store
\* =====================================================================
\* number of chunks in the batches issued before the last one
SucceededBeforeLast == SumLen(SubSeq(upserts, 1, Len(upserts) - 1))

\* C1: with N >= 1 chunks, batch_size B >= 1 and no failing Index Port call, the
\* function issues exactly ceil(N/B) upserts, each of at most B chunks, whose
\* concatenation in call order is the input list, and logs N as the count added.
C1_BatchesPartitionInput ==
    (ingPc = "returned" /\ total_docs >= 1 /\ batch_size >= 1) =>
        /\ Len(upserts) = CeilDiv(total_docs, batch_size)
        /\ \A j \in 1..Len(upserts) : Len(upserts[j]) <= batch_size
        /\ Flatten(upserts) = documents
        /\ added_count = total_docs
        /\ ingLogged = total_docs

C1_Witness ==
    /\ ingPc = "returned"
    /\ batch_size = 3
    /\ upserts = << <<1, 2, 3>>, <<4, 5, 6>>, <<7>> >>
    /\ ingLogged = 7

\* C2: a precondition failure on batch j is translated to RuntimeError, batch j is
\* the last upsert issued, and the summary reports exactly the chunks of batches
\* 1..j-1 as succeeded.
C2_PreconditionReportsSuccesses ==
    (ingPc = "raised" /\ portError = "FailedPrecondition") =>
        /\ ingRaised = "RuntimeError"
        /\ ingCause = "FailedPrecondition"
        /\ ~ENABLED IngNext
        /\ ingLogged = SucceededBeforeLast

\* C3: any other Index Port error on batch j leaves the function as that same
\* error, batch j is the last upsert issued, and the count logged as processed
\* before the error is the total size of batches 1..j-1.
C3_OtherErrorReraised ==
    (portError \in PortErrors /\ ~IsFailedPrecondition(portError)) =>
        /\ ingPc = "raised"
        /\ ingRaised = portError
        /\ ingCause = "none"
        /\ ~ENABLED IngNext
        /\ ingLogged = SucceededBeforeLast
        /\ added_count = SucceededBeforeLast

C3_Witness ==
    /\ ingPc = "raised"
    /\ portError = "ServiceUnavailable"
    /\ ingRaised = "ServiceUnavailable"
    /\ Len(upserts) = 3
    /\ ingLogged = 4

\* =====================================================================
\* claims: query_vector_store
\* =====================================================================
\* C4: with a deployed-index identifier configured, a failing similarity search
\* never raises to the caller and yields the empty sequence; a successful one
\* yields the Index Port's results unchanged.
C4_QueryDegradesToEmpty ==
    (deployed_index_id \notin {"None", ""} /\ qPc # "start") =>
        /\ qPc = "returned"
        /\ qRaised = "none"
        /\ qPortReply \in PortErrors => results = <<>>
        /\ qPortReply = "ok" => results = qPortResults

C4_Witness ==
    /\ qPc = "returned"
    /\ qPortReply = "ServiceUnavailable"
    /\ results = <<>>
    /\ qErrorLogged

\* C5: without a deployed-index identifier the query fails with a configuration
\* error (ValueError), not an empty result, and the Index Port is never called.
C5_QueryRequiresDeployedIndex ==
    (deployed_index_id \in {"None", ""} /\ qPc # "start") =>
        /\ qPc = "raised"
        /\ qRaised = "ValueError"
        /\ qPortCalls = 0
        /\ qPortReply = "none"

C5_Witness ==
    /\ qPc = "raised"
    /\ qRaised = "ValueError"
    /\ deployed_index_id = ""

\* =====================================================================
\* claims: split_documents
\* =====================================================================
SplitDone == spPc \in {"returned", "raised"}

\* the chunks of document number d among those the caller received
ChunksFor(d) == SelectSeq(chunks, LAMBDA c : c.parent = d)

HasInk(t) == \E j \in 1..Len(t) : t[j] \notin {" ", "\n"}

NoSpaces(t) == SelectSeq(t, LAMBDA c : c \notin {" ", "\n"})

\* number of whitespace characters before the first other character
LeadingSpaces(t) ==
    CHOOSE n \in 0..Len(t) :
        /\ \A j \in 1..n : t[j] \in {" ", "\n"}
        /\ n < Len(t) => t[n + 1] \notin {" ", "\n"}

\* index of the last character that is not whitespace (0 if there is none)
LastInk(t) ==
    CHOOSE n \in 0..Len(t) :
        /\ \A j \in (n + 1)..Len(t) : t[j] \in {" ", "\n"}
        /\ n > 0 => t[n] \notin {" ", "\n"}

\* t without its leading and trailing whitespace
Trimmed(t) == SubSeq(t, LeadingSpaces(t) + 1, LastInk(t))

\* C6: whenever chunk_overlap >= chunk_size, split_documents raises a
\* configuration error and returns no chunks, for every document list (the
\* empty one included) and for chunk_overlap = chunk_size.
C6_OverlapNotBelowSizeRaises ==
    (SplitDone /\ CHUNK_OVERLAP >= CHUNK_SIZE) =>
        /\ spPc = "raised"
        /\ spRaised = "ValueError"
        /\ chunks = <<>>

\* C7 as claimed: every failure, from the construction of the splitter to the
\* last document, leaves split_documents as the one error kind (RuntimeError),
\* with no chunks handed to the caller.
C7_Original_SingleErrorKind ==
    spPc = "raised" => (spRaised = "RuntimeError" /\ chunks = <<>>)

\* C7 as amended: a failure while text_splitter.split_documents runs, on any
\* document, leaves the call as RuntimeError caused by that failure; a failure
\* of the construction of the splitter leaves it as the constructor's own
\* ValueError; in both cases the caller receives no chunk, also none of the
\* documents split before the failure, and a call that returns has split every
\* document.
C7_SplitFailureAborts ==
    /\ spPc = "raised" =>
        /\ chunks = <<>>
        /\ IF CHUNK_OVERLAP > CHUNK_SIZE
           THEN spRaised = "ValueError" /\ spCause = "none" /\ spAcc = <<>>
           ELSE /\ spRaised = "RuntimeError"
                /\ spCause = "TypeError"
                /\ ~split_input[spIdx].copyable
    /\ (spPc = "returned" /\ split_input # <<>>) =>
        /\ spIdx = Len(split_input) + 1
        /\ chunks = spAcc

C7_Witness ==
    /\ spPc = "raised"
    /\ spRaised = "RuntimeError"
    /\ spIdx = 2
    /\ spAcc # <<>>
    /\ chunks = <<>>

\* C8 as claimed: a non-empty document shorter than chunk_size yields exactly
\* one chunk, at start_offset 0, whose text is the document text; an empty
\* document and an empty list yield no chunk.
C8_Original_ShortDocOneChunk ==
    spPc = "returned" =>
        \A d \in 1..Len(split_input) :
            LET t == split_input[d].text IN
            /\ (t # <<>> /\ Len(t) < CHUNK_SIZE) =>
                   ChunksFor(d) = <<[parent |-> d, start_index |-> 0,
                                     page_content |-> t]>>
            /\ t = <<>> => ChunksFor(d) = <<>>

\* C8 as amended: a non-empty document shorter than chunk_size yields exactly
\* one chunk when it holds a character that is not whitespace: its text is the
\* document text without leading and trailing whitespace and its start_offset
\* is the number of leading whitespace characters (so 0 and the whole text when
\* the document neither starts nor ends with whitespace); a document of
\* whitespace only, an empty document and an empty list yield no chunk.
C8_ShortDocOneTrimmedChunk ==
    spPc = "returned" =>
        /\ split_input = <<>> => chunks = <<>>
        /\ \A d \in 1..Len(split_input) :
            LET t == split_input[d].text IN
            /\ (HasInk(t) /\ Len(t) < CHUNK_SIZE) =>
                   ChunksFor(d) = <<[parent |-> d,
                                     start_index |-> LeadingSpaces(t),
                                     page_content |-> Trimmed(t)]>>
            /\ (~HasInk(t) /\ Len(t) < CHUNK_SIZE) => ChunksFor(d) = <<>>

C8_Witness ==
    /\ spPc = "returned"
    /\ CHUNK_SIZE = 4
    /\ split_input = <<[text |-> <<" ", "a", "b">>, copyable |-> TRUE]>>
    /\ chunks = <<[parent |-> 1, start_index |-> 1, page_content |-> <<"a", "b">>]>>

\* the last n characters of a are the first n characters of b
OverlapBy(a, b, n) ==
    /\ Len(a) >= n
    /\ Len(b) >= n
    /\ SubSeq(a, Len(a) - n + 1, Len(a)) = SubSeq(b, 1, n)

WindowCount(n, size, overlap) ==
    IF n <= size THEN 1 ELSE 1 + CeilDiv(n - size, size - overlap)

\* chunk j of a separator-free text: where it starts and how long it is
WindowStart(j, size, overlap) == (j - 1) * (size - overlap)

WindowLen(j, n, size, overlap) == Min(size, n - WindowStart(j, size, overlap))

\* the figures of the example: 2500 characters, chunk_size 1000, chunk_overlap 100
ExampleFigures ==
    /\ WindowCount(2500, 1000, 100) = 3
    /\ <<WindowStart(1, 1000, 100), WindowStart(2, 1000, 100),
         WindowStart(3, 1000, 100)>> = <<0, 900, 1800>>
    /\ <<WindowLen(1, 2500, 1000, 100), WindowLen(2, 2500, 1000, 100),
         WindowLen(3, 2500, 1000, 100)>> = <<1000, 1000, 700>>

RECURSIVE Reconstruct(_, _, _, _)
Reconstruct(cs, j, covered, out) ==
    IF j > Len(cs) THEN out
    ELSE LET c == cs[j].page_content
             cut == Min(Len(c), Max(0, covered - cs[j].start_index))
         IN  Reconstruct(cs, j + 1, Max(covered, cs[j].start_index + Len(c)),
                         out \o SubSeq(c, cut + 1, Len(c)))

\* C10: for every document, the chunks in sequence order, each without the
\* prefix that overlaps the previous chunks according to the start offsets,
\* give back the document text up to whitespace: no character is lost or
\* reordered.
C10_RoundTrip ==
    (spPc = "returned" /\ CHUNK_OVERLAP < CHUNK_SIZE) =>
        \A d \in 1..Len(split_input) :
            NoSpaces(Reconstruct(ChunksFor(d), 1, 0, <<>>))
                = NoSpaces(split_input[d].text)

\* =====================================================================
\* claims: load_documents
\* =====================================================================
\* the documents in the returned list
Loaded == {loaded_docs[j] : j \in DOMAIN loaded_docs}

\* f's extension is in allowed_suffixes and has an entry in the loader map
AllowedRecognized(f) ==
    /\ \E j \in DOMAIN allowed_suffixes : allowed_suffixes[j] = f.suffix
    /\ Lower(f.suffix) \in {".pdf", ".txt", ".md"}

\* f is found by the directory scan: visible, and at the top level unless the
\* scan is recursive
Discovered(f) == f.loc # "hidden" /\ (recursive \/ f.loc = "top")

\* the loader for f's extension as a whole (not one file) raised
LoaderFailed(f) == \E h \in ldHandled : h.suffix = f.suffix /\ h.origin = "loader"

\* every document of f is in the returned list
AllLoaded(f) ==
    \A p \in 0..((IF Lower(f.suffix) = ".pdf" THEN PdfPages ELSE 1) - 1) :
        [source |-> f, page |-> p] \in Loaded

\* C11: over an existing directory load_documents never raises, whatever files
\* fail to parse; when it returns, the result holds every document of every
\* discovered file with an allowed, recognized extension that parsed (of the
\* same extension as a failed file or another, before or after it), unless
\* the loader of that whole extension raised; an empty result is a normal
\* return with a warning, and happens only when no such file parsed.
C11_FileFailureIsolated ==
    source_is_dir =>
        /\ ldRaised = "none"
        /\ ldPc # "raised"
        /\ ldPc = "returned" =>
            /\ \A f \in files :
                (AllowedRecognized(f) /\ Discovered(f) /\ f.parse = "ok"
                    /\ ~LoaderFailed(f)) => AllLoaded(f)
            /\ ldWarned <=> (loaded_docs = <<>>)
            /\ \A j \in DOMAIN loaded_docs :
                /\ loaded_docs[j].source \in files
                /\ AllowedRecognized(loaded_docs[j].source)
                /\ Discovered(loaded_docs[j].source)
                /\ loaded_docs[j].source.parse # "fail"

\* a .txt file failed to parse next to a .txt file that parsed, no loader
\* raised, and the call returned the second file's document
C11_Witness ==
    /\ ldPc = "returned"
    /\ ldHandled = {}
    /\ allowed_suffixes = ALLOWED_SUFFIXES
    /\ \E f, g \in files :
        /\ f.suffix = ".txt" /\ f.loc = "top" /\ f.parse = "fail"
        /\ g.suffix = ".txt" /\ g.loc = "nested" /\ g.parse = "ok"
        /\ recursive
        /\ loaded_docs = <<[source |-> g, page |-> 0]>>

\* =====================================================================
\* claims: gcp_clients
\* =====================================================================
\* the object behind handle h
Object(h) == CHOOSE o \in heap : o.id = h

\* handles of one kind among hs
OfKind(hs, kind) == {h \in hs : Object(h).kind = kind}

\* C12: after a get_vertex_embeddings_client / get_vertex_vector_search_client
\* call that raised, the cache slot of that client is empty, and a handle
\* returned by get_vertex_embeddings_client is one whose test embedding
\* succeeded.
C12_FailedInitLeavesNoHandle ==
    /\ (cliCall = "get_embeddings" /\ cliRaised # "none") =>
            vertex_embeddings_client = None
    /\ (cliCall = "get_vector_search" /\ cliRaised # "none") =>
            vertex_vector_search_client = None
    /\ (cliCall = "get_embeddings" /\ cliReturned # None) => Object(cliReturned).tested

\* C13: since the last reset_clients (or the start) at most one handle of each
\* kind has been built, every handle a call returned is the one in the cache
\* slot of its kind, and the vector-search client in the cache wraps the
\* embeddings handle in the cache; right after reset_clients both slots are
\* empty; no handle built before a reset is cached or returned after it.
C13_HandlesBuiltOnceAndReused ==
    /\ Cardinality(OfKind(cliBuilt, "embeddings")) <= 1
    /\ Cardinality(OfKind(cliBuilt, "vector_search")) <= 1
    /\ \A h \in OfKind(cliHanded, "embeddings") : h = vertex_embeddings_client
    /\ \A h \in OfKind(cliHanded, "vector_search") : h = vertex_vector_search_client
    /\ (cliCall = "get_embeddings" /\ cliRaised = "none") =>
            cliReturned # None /\ cliReturned = vertex_embeddings_client
    /\ (cliCall = "get_vector_search" /\ cliRaised = "none") =>
            cliReturned # None /\ cliReturned = vertex_vector_search_client
    /\ vertex_vector_search_client # None =>
            /\ Object(vertex_vector_search_client).kind = "vector_search"
            /\ Object(vertex_vector_search_client).embedding # None
            /\ Object(vertex_vector_search_client).embedding = vertex_embeddings_client
    /\ cliCall = "reset" =>
            vertex_embeddings_client = None /\ vertex_vector_search_client = None
    /\ \A h \in cliRetired :
            /\ h \notin cliBuilt \cup cliHanded
            /\ h # vertex_embeddings_client
            /\ h # vertex_vector_search_client

\* both clients were built (1 and 2), reset_clients ran, the next
\* get_vertex_vector_search_client built two new ones (3 and 4), and a
\* get_vertex_embeddings_client after it returned the cached handle 3
C13_Witness ==
    /\ cliRetired = {1, 2}
    /\ cliBuilt = {3, 4}
    /\ cliHanded = {3, 4}
    /\ Object(3).kind = "embeddings" /\ Object(4).kind = "vector_search"
    /\ Object(4).embedding = 3
    /\ cliCalls = 4
    /\ cliCall = "get_embeddings"
    /\ cliReturned = 3
    /\ vertex_embeddings_client = 3
    /\ vertex_vector_search_client = 4

====
